---- MODULE Spec2Model ----
(***************************************************************************)
(* A model of the browser-side attendance client: the Role Router (App),   *)
(* the teacher-side action handlers of LessonEdit.js (upload, enroll,      *)
(* unenroll, delete file, download) and the student-side views of          *)
(* StudentLessonView.js (StudentLessonView, FaceRegistrationPage) and      *)
(* LessonEdit.js (StudentLessonList).                                      *)
(*                                                                         *)
(* One action per event-loop task: a click handler runs to its first       *)
(* await, a response handler runs the continuation after the await(s) to   *)
(* the end of the async function (try / catch / finally included).         *)
(* Strings that the code builds with template literals are sequences of    *)
(* fragments: <<"Error: ", "bad input">> is `Error: bad input`.            *)
(***************************************************************************)
EXTENDS Integers, Sequences, FiniteSets, TLC

\* ---------------------------------------------------------------- bounds

\* How many clicks on action buttons and navigations a behaviour may hold.
MaxActs == 2

\* ---------------------------------------------------------------- values

\* localStorage.getItem('token') when no credential is stored: null, which a
\* template literal prints as "null".
NoToken == "null"
Tokens == {"tok"}

\* A value that is `undefined` (a missing field, a state never set).
Undefined == "undefined"
\* No file chosen: undefined / null in the code, both falsy.
NoFile == "nofile"
Files == {"a.png"}
\* EnrollStudentForm's studentId: '' or the id chosen in the select.
StudentIds == {"7"}
LessonIds == {1, 2}
\* useParams() outside the lesson route.
NoLesson == 0

\* Truthiness of a string-valued JavaScript value.
Truthy(v) == v # Undefined /\ v # "" /\ v # NoFile /\ v # NoToken

\* -------------------------------------------------------------- responses

\* A response body: its raw text, whether response.json() can parse it, and the
\* fields of the parsed object that the handlers read.
Body(raw, json, detail, message, similarity) ==
    [raw |-> raw, json |-> json, detail |-> detail, message |-> message,
     similarity |-> similarity]

Bodies ==
    { Body("", FALSE, Undefined, Undefined, Undefined),
      Body("<html>", FALSE, Undefined, Undefined, Undefined),
      Body("{}", TRUE, Undefined, Undefined, Undefined),
      Body("{detail:'bad input'}", TRUE, "bad input", Undefined, Undefined),
      Body("{detail:''}", TRUE, "", Undefined, Undefined),
      Body("{message:'ok'}", TRUE, Undefined, "ok", Undefined),
      Body("{similarity:0.9}", TRUE, Undefined, Undefined, "0.9") }

Statuses == {200, 400}

\* What a fetch settles with: a rejection (network exception) or a response.
NetworkError == [net |-> TRUE, status |-> 0, body |-> Body("", FALSE, Undefined, Undefined, Undefined)]
Outcomes ==
    {NetworkError} \cup
    {[net |-> FALSE, status |-> s, body |-> b] : s \in Statuses, b \in Bodies}

\* response.ok
Ok(out) == ~out.net /\ out.status >= 200 /\ out.status <= 299

\* `${response.status}`
StatusText(s) ==
    CASE s = 200 -> "200" [] s = 400 -> "400" [] OTHER -> "0"

\* error.message of the TypeError a rejected fetch throws.
NetErrText == "Failed to fetch"

\* error.message of the SyntaxError response.json() throws: it depends on the text.
ParseErrorText(b) ==
    IF b.raw = "" THEN "Unexpected end of JSON input"
    ELSE "Unexpected token < in JSON at position 0"

\* error.message of the TypeError of `undefined.toFixed`.
TypeErrText == "Cannot read properties of undefined (reading 'toFixed')"

\* Number.prototype.toFixed(4) on the similarity values of Bodies.
ToFixed4(x) == IF x = "0.9" THEN "0.9000" ELSE "NaN"

\* ------------------------------------------------------------- validators

\* A JavaScript value: its type and how it prints.
Js(type, repr) == [type |-> type, repr |-> repr]
JsUndefined == Js("undefined", "undefined")

\* The values a form field may hold.
FieldValues ==
    { JsUndefined, Js("object", "null"),
      Js("boolean", "false"), Js("boolean", "true"),
      Js("number", "0"), Js("number", "-0"), Js("number", "NaN"), Js("number", "1"),
      Js("string", ""), Js("string", "0"), Js("string", "false"), Js("string", "Algebra"),
      Js("object", "[]") }

\* The arguments `required` is called with: none (undefined), or a message.
Messages ==
    { JsUndefined, Js("string", "Required"), Js("string", "Title is required"),
      Js("string", ""), Js("object", "null") }

\* ToBoolean, as the conditional operator applies it to its first operand.
ToBoolean(v) ==
    CASE v.type = "undefined" -> FALSE
      [] v.type = "boolean" -> v.repr = "true"
      [] v.type = "number" -> v.repr \notin {"0", "-0", "NaN"}
      [] v.type = "string" -> v.repr # ""
      [] OTHER -> v.repr # "null"

\* A default parameter takes its default when the argument is undefined.
DefaultParameter(arg, default) == IF arg = JsUndefined THEN default ELSE arg

\* A validator whose message parameter has no default.
requiredWithoutDefault(message, value) ==
    IF ToBoolean(value) THEN JsUndefined ELSE message

\* LessonCreate.js: (message = 'Required') => value => value ? undefined : message
requiredCreate(message, value) ==
    IF ToBoolean(value) THEN JsUndefined
    ELSE DefaultParameter(message, Js("string", "Required"))

\* LessonEdit.js: (message = 'Required') => value => value ? undefined : message
requiredEdit(message, value) ==
    IF ToBoolean(value) THEN JsUndefined
    ELSE DefaultParameter(message, Js("string", "Required"))

\* The validator has not run.
NotRun == Js("none", "")

\* ---------------------------------------------------------- notifications

\* notify(text, {type}); react-admin's notify without a type shows an 'info' one.
Note(text, type) == [text |-> text, type |-> type]
NoNote == Note(<<>>, "none")

AuthMissingText == "Authentication token not found. Please log in."

\* A handler that never read the body's detail.
GenericOnly(out, generic) == generic

\* `errorData.detail || generic`, errorData being the parsed body or, when
\* response.json() rejects, {detail: generic}.
GenericOrDetail(out, generic) ==
    IF out.body.json /\ Truthy(out.body.detail) THEN out.body.detail ELSE generic

\* The message of the error that reaches the catch block of a teacher-side
\* handler or of a data fetch whose request did not end in a 2xx.
CaughtMessage(out, generic) ==
    IF out.net THEN <<NetErrText>> ELSE <<GenericOrDetail(out, generic)>>

UploadNote(out) ==
    IF Ok(out) THEN Note(<<"File uploaded successfully">>, "info")
    ELSE Note(<<"Error: ">> \o CaughtMessage(out, "File upload failed"), "warning")

EnrollNote(out) ==
    IF Ok(out) THEN Note(<<"Student enrolled successfully">>, "info")
    ELSE Note(<<"Error: ">> \o CaughtMessage(out, "Enrollment failed"), "warning")

UnenrollNote(out) ==
    IF Ok(out) THEN Note(<<"Student unenrolled successfully">>, "info")
    ELSE Note(<<"Error: ">> \o CaughtMessage(out, "Unenrollment failed"), "warning")

\* The delete handler reads the error body with response.text(), not as JSON.
DeleteNote(out) ==
    IF Ok(out) THEN Note(<<"File deleted successfully">>, "info")
    ELSE IF out.net THEN Note(<<"Error: ", NetErrText>>, "warning")
    ELSE Note(<<"Error: ", "Failed to delete file. Status: ", StatusText(out.status),
                ", Message: ", out.body.raw>>, "warning")

\* handleMarkAttendance after the fetch settled: does the try block run to its end?
MarkSucceeds(out) ==
    Ok(out) /\ out.body.json /\ out.body.similarity # Undefined

\* error.message in handleMarkAttendance's catch block.
MarkErrorMessage(out) ==
    IF out.net THEN <<NetErrText>>
    ELSE IF ~out.body.json THEN <<ParseErrorText(out.body)>>
    ELSE IF ~Ok(out) THEN
        IF Truthy(out.body.detail) THEN <<out.body.detail>>
        ELSE <<"HTTP error! Status: ", StatusText(out.status)>>
    ELSE <<TypeErrText>>

MarkSuccessMessage(out) ==
    <<"Attendance confirmed! Similarity: ", ToFixed4(out.body.similarity)>>

MarkNote(out) ==
    IF MarkSucceeds(out) THEN Note(MarkSuccessMessage(out), "success")
    ELSE Note(<<"Attendance Error: ">> \o MarkErrorMessage(out), "error")

\* handleRegisterFace after the fetch settled.
RegisterSucceeds(out) == Ok(out) /\ out.body.json

RegisterErrorMessage(out) ==
    IF out.net THEN <<NetErrText>>
    ELSE IF ~out.body.json THEN <<ParseErrorText(out.body)>>
    ELSE IF Truthy(out.body.detail) THEN <<out.body.detail>>
    ELSE <<"HTTP error! status: ", StatusText(out.status)>>

RegisterSuccessMessage(out) ==
    IF Truthy(out.body.message) THEN <<out.body.message>>
    ELSE <<"Face registered successfully!">>

RegisterNote(out) ==
    IF RegisterSucceeds(out) THEN Note(<<"Face registered successfully!">>, "success")
    ELSE Note(<<"Error: ">> \o RegisterErrorMessage(out), "error")

\* The error a data fetch stores with setError: non-2xx, rejection, or a 2xx
\* body that response.json() cannot parse.
FetchSucceeds(out) == Ok(out) /\ out.body.json

FetchErrorMessage(out, generic) ==
    IF Ok(out) THEN <<ParseErrorText(out.body)>> ELSE CaughtMessage(out, generic)

\* ------------------------------------------------------------- role router

\* What authProvider.getPermissions() may resolve with.
Null == "null"
Roles == {"teacher", "student", "guest", ""}

AdminResources ==
    {"users", "lessons", "attendance", "lessonfiles", "studentlessonenrollments", "files"}

Route(path, element) == <<path, element>>

StudentRoutes ==
    { Route("/student/lessons", "StudentLessonList"),
      Route("/student/lessons/:lessonId", "StudentLessonView"),
      Route("/", "StudentLessonList"),
      Route("/student/register-face", "FaceRegistrationPage") }

FallbackRoutes == { Route("/", "Dashboard") }

\* A fallback that tested only `!permissions`.
FallbackOnlyWhenFalsy(perms) ==
    (IF perms = "student" THEN StudentRoutes ELSE {}) \cup
    (IF perms = Null \/ perms = "" THEN FallbackRoutes ELSE {})

\* The children App renders under <Admin> for a value of `permissions`.
MountedResources(perms) == IF perms = "teacher" THEN AdminResources ELSE {}

MountedRoutes(perms) ==
    (IF perms = "student" THEN StudentRoutes ELSE {}) \cup
    (IF perms = Null \/ perms = "" \/ (perms # "teacher" /\ perms # "student")
        THEN FallbackRoutes ELSE {})

\* ------------------------------------------------------------------ state

VARIABLES
    token,                \* localStorage 'token': NoToken or a credential
    hasGetPermissions,    \* authProvider && authProvider.getPermissions
    permissions,          \* App: permissions
    loadingPermissions,   \* App: loadingPermissions
    permPhase,            \* App's effect: "mounted", "pending", "settled"
    permRequests,         \* calls of authProvider.getPermissions()
    loc,                  \* the student's route: [view, lessonId]
    list,                 \* StudentLessonList's state
    slv,                  \* StudentLessonView's state
    frp,                  \* FaceRegistrationPage's state
    up,                   \* LessonFileUpload's state
    enr,                  \* EnrollStudentForm's state
    inflight,             \* requests sent and not yet settled
    acts,                 \* clicks on action buttons and navigations so far
    validated,            \* a field value, a message and what `required` returned
    cam,                  \* the camera-capture page: its DOM and its pending clicks
    lastEvent             \* what the last step did (history)

routerVars  == <<hasGetPermissions, permissions, loadingPermissions, permPhase, permRequests>>
studentVars == <<loc, list, slv, frp>>
teacherVars == <<up, enr>>
vars == <<token, routerVars, studentVars, teacherVars, inflight, acts, validated, cam, lastEvent>>

NoError == <<>>
NoText  == <<>>

ListInit == [lessons |-> "none", loading |-> TRUE, error |-> NoError]

SlvInit ==
    [lesson |-> NoLesson, loading |-> TRUE, error |-> NoError,
     selectedFile |-> NoFile, isAttendanceLoading |-> FALSE,
     attendanceServerMessage |-> NoText, attendanceServerMessageType |-> "info",
     input |-> NoFile]

FrpInit ==
    [selectedFile |-> NoFile, isLoading |-> FALSE, serverMessage |-> NoText,
     serverMessageType |-> "info", input |-> NoFile]

UpInit == [file |-> NoFile, fileName |-> "", input |-> NoFile]

EnrInit == [studentId |-> ""]

NoOutcome == [net |-> FALSE, status |-> 0, body |-> Body("", FALSE, Undefined, Undefined, Undefined)]

\* A step's record: the action, the handler, the branch it took, the credential
\* the request it sent carried, the outcome it handled, the notification it
\* showed, whether the view that issued the request was still mounted, and
\* whether the step called refresh().
Event(act, h, kind, auth, out, note, cur, refresh) ==
    [act |-> act, h |-> h, kind |-> kind, auth |-> auth, out |-> out,
     note |-> note, cur |-> cur, refresh |-> refresh]

Quiet(act, h, kind) == Event(act, h, kind, NoToken, NoOutcome, NoNote, TRUE, FALSE)

\* The least number that names no request in flight.
FreeId == CHOOSE i \in 0..Cardinality(inflight) :
              /\ \A r \in inflight : r.id # i
              /\ \A j \in 0..Cardinality(inflight) :
                    (\A r \in inflight : r.id # j) => i <= j

\* A request as fetch sends it: the Authorization header is `Bearer ${token}`.
\* `live` says that the view instance that awaits it is still mounted.
Request(h, lessonId) ==
    [id |-> FreeId, h |-> h, auth |-> token, lessonId |-> lessonId, live |-> TRUE]

\* A handler that sent its request twice.
SendsTwice(h, lessonId) ==
    { Request(h, lessonId),
      [Request(h, lessonId) EXCEPT !.id = Cardinality(inflight) + 1] }

\* The requests one invocation of an action handler issues.
NewRequests(h, lessonId) == { Request(h, lessonId) }

\* An effect cleanup that aborted the view's requests.
AbortedOnUnmount(reqs) == {}

\* Nothing cancels a request when its view unmounts: it stays in flight.
Unmounted(reqs) == { [r EXCEPT !.live = FALSE] : r \in reqs }

\* A continuation that logged the user out when its request failed.
TokenRemovedOnFailure(out) == IF Ok(out) THEN token ELSE NoToken

\* localStorage after a continuation ran: the handlers and the data fetches
\* call localStorage.getItem only, so the store is what it was.
TokenAfter(out) == token

\* The camera-capture page as it is served: the status line empty, the video
\* hidden, the button with its label (Cyrillic in the source, transliterated
\* here), no click pending, no camera stream open.
BtnIdleLabel == "Otmetit' prisutstvie"
BtnBusyLabel == "Delaem snimok..."
CamSuccessText == <<"[check mark] Otmecheno!">>

CamInit ==
    [status |-> NoText, hidden |-> TRUE, label |-> BtnIdleLabel,
     jobs |-> {}, liveStreams |-> {}]

\* One more click or navigation.
Act == acts < MaxActs /\ acts' = acts + 1

Init ==
    /\ token \in Tokens \cup {NoToken}
    /\ hasGetPermissions \in BOOLEAN
    /\ permissions = Null
    /\ loadingPermissions = TRUE
    /\ permPhase = "mounted"
    /\ permRequests = 0
    /\ loc = [view |-> "none", lessonId |-> NoLesson]
    /\ list = ListInit
    /\ slv = SlvInit
    /\ frp = FrpInit
    /\ up = UpInit
    /\ enr = EnrInit
    /\ inflight = {}
    /\ acts = 0
    /\ validated = [value |-> JsUndefined, message |-> JsUndefined,
                    create |-> NotRun, edit |-> NotRun]
    /\ cam = CamInit
    /\ lastEvent = Quiet("init", "App", "none")

\* ------------------------------------------------------------ Role Router

StudentViews == {"list", "lesson", "face"}

\* Mounting a student view: its initial state and, for the two lesson views, the
\* data fetch of its effect.
ViewFetch(view) ==
    CASE view = "list" -> "fetchLessons"
      [] view = "lesson" -> "fetchLessonDetails"
      [] OTHER -> "none"

MountView(view, lessonId) ==
    /\ loc' = [view |-> view, lessonId |-> lessonId]
    /\ list' = ListInit
    /\ slv' = SlvInit
    /\ frp' = FrpInit
    /\ IF ViewFetch(view) = "none"
         THEN inflight' = Unmounted(inflight)
         ELSE inflight' = Unmounted(inflight) \cup {Request(ViewFetch(view), lessonId)}

\* The state App's .then / .catch / else branch leaves: the role and the flag.
Resolved(perms) == [permissions |-> perms, loadingPermissions |-> FALSE]

\* With the routes of `perms` mounted, the route that matches the browser's
\* location renders its element: the student may have opened any of them.
Land(perms, view, lessonId) ==
    IF perms = "student"
      THEN /\ (view = "lesson") = (lessonId # NoLesson)
           /\ MountView(view, lessonId)
      ELSE /\ view = "list"
           /\ lessonId = NoLesson
           /\ UNCHANGED <<loc, list, slv, frp, inflight>>

\* An effect that ran after every render (no dependency array) would ask again.
EffectEveryRender == permPhase # "pending" /\ permRequests < 2

\* React.useEffect(..., []): the effect is due once, after the first render.
EffectDue == permPhase = "mounted"

AppEffect ==
    /\ EffectDue
    /\ IF hasGetPermissions
         THEN /\ permPhase' = "pending"
              /\ permRequests' = permRequests + 1
              /\ UNCHANGED <<permissions, loadingPermissions>>
         ELSE /\ permPhase' = "settled"
              /\ permissions' = Resolved("teacher").permissions
              /\ loadingPermissions' = Resolved("teacher").loadingPermissions
              /\ UNCHANGED permRequests
    /\ lastEvent' = Quiet("effect", "App", "none")
    /\ UNCHANGED <<acts, token, validated, cam, hasGetPermissions, studentVars, teacherVars, inflight>>

\* getPermissions() resolved with perms (.then), or rejected (.catch: null).
PermissionsSettled(perms, view, lessonId) ==
    /\ permPhase = "pending"
    /\ permPhase' = "settled"
    /\ permissions' = Resolved(perms).permissions
    /\ loadingPermissions' = Resolved(perms).loadingPermissions
    /\ Land(perms, view, lessonId)
    /\ lastEvent' = Quiet("perms", "App", "none")
    /\ UNCHANGED <<acts, token, validated, cam, hasGetPermissions, permRequests, teacherVars>>

\* What <Admin> holds once App renders it.
Resources == IF loadingPermissions THEN {} ELSE MountedResources(permissions)
Routes    == IF loadingPermissions THEN {} ELSE MountedRoutes(permissions)

TeacherMounted == "lessons" \in Resources
StudentMounted == Route("/student/lessons/:lessonId", "StudentLessonView") \in Routes

\* ---------------------------------------------------------- student views

\* The student follows a link or edits the location. A change of :lessonId keeps
\* StudentLessonView mounted and re-runs its effect; any other change unmounts
\* the current view (its state is gone) and mounts the next one.
Navigate(view, lessonId) ==
    /\ StudentMounted
    /\ (view = "lesson") = (lessonId # NoLesson)
    /\ <<view, lessonId>> # <<loc.view, loc.lessonId>>
    /\ Act
    /\ IF view = "lesson" /\ loc.view = "lesson"
         THEN /\ loc' = [loc EXCEPT !.lessonId = lessonId]
              /\ inflight' = inflight \cup {Request("fetchLessonDetails", lessonId)}
              /\ UNCHANGED <<list, slv, frp>>
         ELSE MountView(view, lessonId)
    /\ lastEvent' = Quiet("nav", view, "none")
    /\ UNCHANGED <<token, validated, cam, routerVars, teacherVars>>

\* fetchLessons with setLoading(false) at the end of its try block.
ListFetchNoFinally(s, out) ==
    [lessons |-> IF FetchSucceeds(out) THEN "loaded" ELSE s.lessons,
     error   |-> IF FetchSucceeds(out) THEN s.error
                 ELSE FetchErrorMessage(out, "Failed to fetch lessons"),
     loading |-> IF FetchSucceeds(out) THEN FALSE ELSE s.loading]

\* fetchLessons: try / catch / finally after the fetch settled.
ListAfterFetch(s, out) ==
    [lessons |-> IF FetchSucceeds(out) THEN "loaded" ELSE s.lessons,
     error   |-> IF FetchSucceeds(out) THEN s.error
                 ELSE FetchErrorMessage(out, "Failed to fetch lessons"),
     loading |-> FALSE]

FetchLessonsSettled(req, out) ==
    /\ req \in inflight
    /\ req.h = "fetchLessons"
    /\ inflight' = inflight \ {req}
    /\ list' = IF req.live THEN ListAfterFetch(list, out) ELSE list
    /\ lastEvent' = Event("response", req.h, IF FetchSucceeds(out) THEN "success" ELSE "failure",
                          req.auth, NoOutcome, NoNote, req.live, FALSE)
    /\ token' = TokenAfter(out)
    /\ UNCHANGED <<acts, validated, cam, routerVars, loc, slv, frp, teacherVars>>

\* fetchLessonDetails: try / catch / finally after the fetch settled.
SlvAfterFetch(s, out, lessonId) ==
    [s EXCEPT !.lesson  = IF FetchSucceeds(out) THEN lessonId ELSE s.lesson,
              !.error   = IF FetchSucceeds(out) THEN s.error
                          ELSE FetchErrorMessage(out, "Failed to fetch lesson details"),
              !.loading = FALSE]

FetchLessonDetailsSettled(req, out) ==
    /\ req \in inflight
    /\ req.h = "fetchLessonDetails"
    /\ inflight' = inflight \ {req}
    /\ slv' = IF req.live THEN SlvAfterFetch(slv, out, req.lessonId) ELSE slv
    /\ lastEvent' = Event("response", req.h, IF FetchSucceeds(out) THEN "success" ELSE "failure",
                          req.auth, NoOutcome, NoNote, req.live, FALSE)
    /\ token' = TokenAfter(out)
    /\ UNCHANGED <<acts, validated, cam, routerVars, loc, list, frp, teacherVars>>

\* StudentLessonView renders its page (files, file input, button) only past the
\* three early returns.
SlvRendered ==
    /\ loc.view = "lesson"
    /\ ~slv.loading
    /\ slv.error = NoError
    /\ slv.lesson # NoLesson

\* A button disabled only while no file is selected.
MarkDisabledWithoutFlag == slv.selectedFile = NoFile

\* disabled={isAttendanceLoading || !selectedFile}
MarkDisabled == slv.isAttendanceLoading \/ slv.selectedFile = NoFile

\* StudentLessonView.handleFileChange: files[0] is undefined when nothing is chosen.
SlvFileChange(f) ==
    /\ StudentMounted
    /\ SlvRendered
    /\ slv' = [slv EXCEPT !.selectedFile = f, !.attendanceServerMessage = NoText,
                          !.input = f]
    /\ lastEvent' = Quiet("select", "markAttendance", "none")
    /\ UNCHANGED <<acts, token, validated, cam, routerVars, loc, list, frp, teacherVars, inflight>>

\* A file link of the lesson page: href ...download?token=${localStorage.getItem('token')}
SlvDownload ==
    /\ StudentMounted
    /\ SlvRendered
    /\ lastEvent' = Event("download", "studentDownload", "sent", token, NoOutcome, NoNote, TRUE, FALSE)
    /\ UNCHANGED <<acts, token, validated, cam, routerVars, studentVars, teacherVars, inflight>>

\* handleMarkAttendance up to its first await.
handleMarkAttendance ==
    /\ StudentMounted
    /\ loc.view = "lesson"
    /\ Act
    /\ IF slv.selectedFile = NoFile
         THEN /\ slv' = [slv EXCEPT
                    !.attendanceServerMessage = <<"Please select an image file to mark attendance.">>,
                    !.attendanceServerMessageType = "warning"]
              /\ lastEvent' = Event("invoke", "markAttendance", "nofile", NoToken, NoOutcome,
                     Note(<<"Please select a file to simulate camera capture.">>, "warning"),
                     TRUE, FALSE)
              /\ UNCHANGED inflight
         ELSE /\ slv' = [slv EXCEPT !.isAttendanceLoading = TRUE,
                                    !.attendanceServerMessage = NoText]
              /\ inflight' = inflight \cup NewRequests("markAttendance", loc.lessonId)
              /\ lastEvent' = Event("invoke", "markAttendance", "sent", token, NoOutcome, NoNote,
                                    TRUE, FALSE)
    /\ UNCHANGED <<token, validated, cam, routerVars, loc, list, frp, teacherVars>>

\* A click on the button: only an enabled, rendered button calls the handler.
ClickMarkAttendance ==
    /\ SlvRendered
    /\ ~MarkDisabled
    /\ handleMarkAttendance

\* A catch block that cleared the selection as the success path does.
SlvClearsOnFailure(s, out) ==
    [s EXCEPT !.attendanceServerMessage =
                  IF MarkSucceeds(out) THEN MarkSuccessMessage(out) ELSE MarkErrorMessage(out),
              !.attendanceServerMessageType = IF MarkSucceeds(out) THEN "success" ELSE "error",
              !.selectedFile = NoFile,
              !.isAttendanceLoading = FALSE]

\* A handler without its finally block: the flag is reset on success only.
SlvNoFinally(s, out) ==
    IF MarkSucceeds(out)
      THEN [s EXCEPT !.attendanceServerMessage = MarkSuccessMessage(out),
                     !.attendanceServerMessageType = "success",
                     !.selectedFile = NoFile,
                     !.isAttendanceLoading = FALSE]
      ELSE [s EXCEPT !.attendanceServerMessage = MarkErrorMessage(out),
                     !.attendanceServerMessageType = "error"]

\* handleMarkAttendance's state updates after the fetch settled: the rest of the
\* try block, or catch; then finally.
SlvAfterMark(s, out) ==
    IF MarkSucceeds(out)
      THEN [s EXCEPT !.attendanceServerMessage = MarkSuccessMessage(out),
                     !.attendanceServerMessageType = "success",
                     !.selectedFile = NoFile,
                     !.isAttendanceLoading = FALSE]
      ELSE [s EXCEPT !.attendanceServerMessage = MarkErrorMessage(out),
                     !.attendanceServerMessageType = "error",
                     !.isAttendanceLoading = FALSE]

\* The continuation runs whether or not its view is still mounted: notify and
\* the lookup of the file input by id act on the page as it is now; the
\* setState calls of an unmounted instance change nothing.
MarkAttendanceSettled(req, out) ==
    /\ req \in inflight
    /\ req.h = "markAttendance"
    /\ inflight' = inflight \ {req}
    /\ slv' = [ (IF req.live THEN SlvAfterMark(slv, out) ELSE slv)
                  EXCEPT !.input = IF MarkSucceeds(out) /\ SlvRendered THEN NoFile ELSE @ ]
    /\ lastEvent' = Event("response", req.h, IF MarkSucceeds(out) THEN "success" ELSE "failure",
                          req.auth, out, MarkNote(out), req.live, FALSE)
    /\ token' = TokenAfter(out)
    /\ UNCHANGED <<acts, validated, cam, routerVars, loc, list, frp, teacherVars>>

\* disabled={isLoading || !selectedFile}
RegisterDisabled == frp.isLoading \/ frp.selectedFile = NoFile

\* FaceRegistrationPage.handleFileChange
FrpFileChange(f) ==
    /\ StudentMounted
    /\ loc.view = "face"
    /\ frp' = [frp EXCEPT !.selectedFile = f, !.serverMessage = NoText, !.input = f]
    /\ lastEvent' = Quiet("select", "registerFace", "none")
    /\ UNCHANGED <<acts, token, validated, cam, routerVars, loc, list, slv, teacherVars, inflight>>

\* handleRegisterFace up to its first await; without a credential the throw, the
\* catch and the finally all run before the handler returns.
handleRegisterFace ==
    /\ StudentMounted
    /\ loc.view = "face"
    /\ Act
    /\ IF frp.selectedFile = NoFile
         THEN /\ frp' = [frp EXCEPT !.serverMessage = <<"Please select an image file first.">>,
                                    !.serverMessageType = "warning"]
              /\ lastEvent' = Event("invoke", "registerFace", "nofile", NoToken, NoOutcome,
                     Note(<<"Please select an image file first.">>, "warning"), TRUE, FALSE)
              /\ UNCHANGED inflight
         ELSE IF ~Truthy(token)
         THEN /\ frp' = [frp EXCEPT !.serverMessage = <<"Authentication token not found.">>,
                                    !.serverMessageType = "error",
                                    !.isLoading = FALSE]
              /\ lastEvent' = Event("invoke", "registerFace", "notoken", NoToken, NoOutcome,
                     Note(<<"Error: ", "Authentication token not found.">>, "error"), TRUE, FALSE)
              /\ UNCHANGED inflight
         ELSE /\ frp' = [frp EXCEPT !.isLoading = TRUE, !.serverMessage = NoText]
              /\ inflight' = inflight \cup NewRequests("registerFace", NoLesson)
              /\ lastEvent' = Event("invoke", "registerFace", "sent", token, NoOutcome, NoNote,
                                    TRUE, FALSE)
    /\ UNCHANGED <<token, validated, cam, routerVars, loc, list, slv, teacherVars>>

ClickRegisterFace ==
    /\ ~RegisterDisabled
    /\ handleRegisterFace

\* handleRegisterFace's state updates after the fetch settled.
FrpAfterRegister(s, out) ==
    IF RegisterSucceeds(out)
      THEN [s EXCEPT !.serverMessage = RegisterSuccessMessage(out),
                     !.serverMessageType = "success",
                     !.selectedFile = NoFile,
                     !.isLoading = FALSE]
      ELSE [s EXCEPT !.serverMessage = RegisterErrorMessage(out),
                     !.serverMessageType = "error",
                     !.isLoading = FALSE]

RegisterFaceSettled(req, out) ==
    /\ req \in inflight
    /\ req.h = "registerFace"
    /\ inflight' = inflight \ {req}
    /\ frp' = [ (IF req.live THEN FrpAfterRegister(frp, out) ELSE frp)
                  EXCEPT !.input = IF RegisterSucceeds(out) /\ loc.view = "face" THEN NoFile ELSE @ ]
    /\ lastEvent' = Event("response", req.h, IF RegisterSucceeds(out) THEN "success" ELSE "failure",
                          req.auth, out, RegisterNote(out), req.live, FALSE)
    /\ token' = TokenAfter(out)
    /\ UNCHANGED <<acts, validated, cam, routerVars, loc, list, slv, teacherVars>>

\* ---------------------------------------------------- teacher: LessonEdit

\* LessonFileUpload.handleFileChange
UpFileChange(f) ==
    /\ TeacherMounted
    /\ up' = [file |-> f, fileName |-> IF f = NoFile THEN "" ELSE f, input |-> f]
    /\ lastEvent' = Quiet("select", "upload", "none")
    /\ UNCHANGED <<acts, token, validated, cam, routerVars, studentVars, enr, inflight>>

\* A teacher-side handler whose payload is present: warn without a credential,
\* else send the request.
Attempt(h) ==
    IF ~Truthy(token)
      THEN /\ lastEvent' = Event("invoke", h, "notoken", NoToken, NoOutcome,
                  Note(<<AuthMissingText>>, "warning"), TRUE, FALSE)
           /\ UNCHANGED inflight
      ELSE /\ inflight' = inflight \cup NewRequests(h, NoLesson)
           /\ lastEvent' = Event("invoke", h, "sent", token, NoOutcome, NoNote, TRUE, FALSE)

\* An early return placed after the fetch.
ReturnButSend(h, kind) ==
    /\ lastEvent' = Quiet("invoke", h, kind)
    /\ inflight' = inflight \cup NewRequests(h, NoLesson)

\* The handler returned before doing anything (no payload, or confirm declined).
Return(h, kind) ==
    /\ lastEvent' = Quiet("invoke", h, kind)
    /\ UNCHANGED inflight

\* handleFileUpload up to its first await (the record context is loaded
\* whenever Edit renders its form).
handleFileUpload ==
    /\ TeacherMounted
    /\ Act
    /\ IF ~Truthy(up.file) THEN Return("upload", "nofile") ELSE Attempt("upload")
    /\ UNCHANGED <<token, validated, cam, routerVars, studentVars, teacherVars>>

\* A button that is also disabled while an upload is in flight.
ClickUploadWhenIdle ==
    /\ Truthy(up.file)
    /\ \A r \in inflight : r.h # "upload"
    /\ handleFileUpload

\* disabled={!file}
ClickUpload ==
    /\ Truthy(up.file)
    /\ handleFileUpload

\* handleFileUpload's state updates after the fetch settled.
UpAfterUpload(s, out) ==
    IF Ok(out) THEN [file |-> NoFile, fileName |-> "", input |-> NoFile] ELSE s

\* A handler that refreshed in a finally block.
RefreshesAlways(out) == TRUE

\* refresh() is called on the success path only.
Refreshes(out) == Ok(out)

UploadSettled(req, out) ==
    /\ req \in inflight
    /\ req.h = "upload"
    /\ inflight' = inflight \ {req}
    /\ up' = UpAfterUpload(up, out)
    /\ lastEvent' = Event("response", req.h, IF Ok(out) THEN "success" ELSE "failure",
                          req.auth, out, UploadNote(out), TRUE, Refreshes(out))
    /\ token' = TokenAfter(out)
    /\ UNCHANGED <<acts, validated, cam, routerVars, studentVars, enr>>

\* EnrollStudentForm: the select's onChange
EnrSelect(id) ==
    /\ TeacherMounted
    /\ enr' = [studentId |-> id]
    /\ lastEvent' = Quiet("select", "enroll", "none")
    /\ UNCHANGED <<acts, token, validated, cam, routerVars, studentVars, up, inflight>>

\* handleEnroll up to its first await.
handleEnroll ==
    /\ TeacherMounted
    /\ Act
    /\ IF ~Truthy(enr.studentId) THEN Return("enroll", "nofile") ELSE Attempt("enroll")
    /\ UNCHANGED <<token, validated, cam, routerVars, studentVars, teacherVars>>

\* disabled={!studentId}
ClickEnroll ==
    /\ Truthy(enr.studentId)
    /\ handleEnroll

EnrAfterEnroll(s, out) ==
    IF Ok(out) THEN [studentId |-> ""] ELSE s

EnrollSettled(req, out) ==
    /\ req \in inflight
    /\ req.h = "enroll"
    /\ inflight' = inflight \ {req}
    /\ enr' = EnrAfterEnroll(enr, out)
    /\ lastEvent' = Event("response", req.h, IF Ok(out) THEN "success" ELSE "failure",
                          req.auth, out, EnrollNote(out), TRUE, Refreshes(out))
    /\ token' = TokenAfter(out)
    /\ UNCHANGED <<acts, validated, cam, routerVars, studentVars, up>>

\* CustomFileDeleteButton.handleDelete; `confirmed` is what window.confirm returns.
handleDelete(confirmed) ==
    /\ TeacherMounted
    /\ Act
    /\ IF ~confirmed THEN Return("deleteFile", "declined") ELSE Attempt("deleteFile")
    /\ UNCHANGED <<token, validated, cam, routerVars, studentVars, teacherVars>>

DeleteSettled(req, out) ==
    /\ req \in inflight
    /\ req.h = "deleteFile"
    /\ inflight' = inflight \ {req}
    /\ lastEvent' = Event("response", req.h, IF Ok(out) THEN "success" ELSE "failure",
                          req.auth, out, DeleteNote(out), TRUE, Refreshes(out))
    /\ token' = TokenAfter(out)
    /\ UNCHANGED <<acts, validated, cam, routerVars, studentVars, teacherVars>>

\* The Unenroll button's onClick (the row record always has an id).
handleUnenroll(confirmed) ==
    /\ TeacherMounted
    /\ Act
    /\ IF ~confirmed THEN Return("unenroll", "declined") ELSE Attempt("unenroll")
    /\ UNCHANGED <<token, validated, cam, routerVars, studentVars, teacherVars>>

UnenrollSettled(req, out) ==
    /\ req \in inflight
    /\ req.h = "unenroll"
    /\ inflight' = inflight \ {req}
    /\ lastEvent' = Event("response", req.h, IF Ok(out) THEN "success" ELSE "failure",
                          req.auth, out, UnenrollNote(out), TRUE, Refreshes(out))
    /\ token' = TokenAfter(out)
    /\ UNCHANGED <<acts, validated, cam, routerVars, studentVars, teacherVars>>

\* The Download button's onClick: console.warn without a credential, else
\* window.open of the download URL with ?token=.
handleDownload ==
    /\ TeacherMounted
    /\ lastEvent' = IF ~Truthy(token)
                      THEN Quiet("download", "teacherDownload", "notoken")
                      ELSE Event("download", "teacherDownload", "sent", token, NoOutcome, NoNote,
                                 TRUE, FALSE)
    /\ UNCHANGED <<acts, token, validated, cam, routerVars, studentVars, teacherVars, inflight>>

\* --------------------------------------------------------- specifications

\* A fetch settles: the continuation of the handler that awaited it runs.
SettleStudent ==
    \E req \in inflight, out \in Outcomes :
        \/ FetchLessonsSettled(req, out)
        \/ FetchLessonDetailsSettled(req, out)
        \/ MarkAttendanceSettled(req, out)
        \/ RegisterFaceSettled(req, out)

SettleTeacher ==
    \E req \in inflight, out \in Outcomes :
        \/ UploadSettled(req, out)
        \/ EnrollSettled(req, out)
        \/ DeleteSettled(req, out)
        \/ UnenrollSettled(req, out)

NextRouter ==
    \/ AppEffect
    \/ \E perms \in Roles \cup {Null}, view \in StudentViews, l \in LessonIds \cup {NoLesson} :
            PermissionsSettled(perms, view, l)

\* What a student can do through the rendered pages.
NextStudent ==
    \/ \E view \in StudentViews, l \in LessonIds \cup {NoLesson} : Navigate(view, l)
    \/ \E f \in Files \cup {NoFile} : SlvFileChange(f)
    \/ SlvDownload
    \/ ClickMarkAttendance
    \/ \E f \in Files \cup {NoFile} : FrpFileChange(f)
    \/ ClickRegisterFace
    \/ SettleStudent

\* What a teacher can do through the rendered LessonEdit page.
NextTeacher ==
    \/ \E f \in Files \cup {NoFile} : UpFileChange(f)
    \/ ClickUpload
    \/ \E id \in StudentIds \cup {""} : EnrSelect(id)
    \/ ClickEnroll
    \/ \E c \in BOOLEAN : handleDelete(c)
    \/ \E c \in BOOLEAN : handleUnenroll(c)
    \/ handleDownload
    \/ SettleTeacher

Next == NextRouter \/ NextStudent \/ NextTeacher

Spec == Init /\ [][Next]_vars

\* The handlers called directly, as a test of a handler calls them: a disabled
\* button does not stand between the caller and the handler.
NextDirect ==
    \/ Next
    \/ handleMarkAttendance
    \/ handleRegisterFace
    \/ handleFileUpload
    \/ handleEnroll

SpecDirect == Init /\ [][NextDirect]_vars

\* The student's session, in which every fetch settles: the browser resolves or
\* rejects it. (The teacher's actions are never enabled in a session whose role
\* resolved to student, and the role does not change.)
StudentSpec ==
    Init /\ [][NextRouter \/ NextStudent]_vars /\ WF_vars(SettleStudent)

\* The forms of LessonCreate and LessonEdit: a field holds a value, the form was
\* written with a message, and each form's validator runs on the value.
InitValidator ==
    /\ token \in Tokens \cup {NoToken}
    /\ hasGetPermissions \in BOOLEAN
    /\ permissions = Null
    /\ loadingPermissions = TRUE
    /\ permPhase = "mounted"
    /\ permRequests = 0
    /\ loc = [view |-> "none", lessonId |-> NoLesson]
    /\ list = ListInit
    /\ slv = SlvInit
    /\ frp = FrpInit
    /\ up = UpInit
    /\ enr = EnrInit
    /\ inflight = {}
    /\ acts = 0
    /\ validated \in [value : FieldValues, message : Messages,
                      create : {NotRun}, edit : {NotRun}]
    /\ cam = CamInit
    /\ lastEvent = Quiet("init", "App", "none")

ValidateCreate ==
    /\ validated.create = NotRun
    /\ validated' = [validated EXCEPT
                        !.create = requiredCreate(validated.message, validated.value)]
    /\ UNCHANGED <<token, routerVars, studentVars, teacherVars, inflight, acts, cam, lastEvent>>

ValidateEdit ==
    /\ validated.edit = NotRun
    /\ validated' = [validated EXCEPT
                        !.edit = requiredEdit(validated.message, validated.value)]
    /\ UNCHANGED <<token, routerVars, studentVars, teacherVars, inflight, acts, cam, lastEvent>>

NextValidator == ValidateCreate \/ ValidateEdit

ValidatorSpec == InitValidator /\ [][NextValidator]_vars

\* ------------------------------------------------- camera-capture script

\* A click on the mark button: the status line is cleared and the listener
\* awaits getUserMedia. The button is never disabled: clicks may overlap. A
\* job is one run of the listener, named by the number of its click.
CamClick ==
    /\ Act
    /\ cam' = [cam EXCEPT !.status = NoText,
                          !.jobs = @ \cup {[id |-> acts, phase |-> "media"]}]
    /\ UNCHANGED <<token, routerVars, studentVars, teacherVars, inflight, validated, lastEvent>>

\* The job with its phase changed.
Advance(job, phase) == (cam.jobs \ {job}) \cup {[job EXCEPT !.phase = phase]}

\* getUserMedia settled. Granted: the stream is shown, the label changed and a
\* one-second timer set. Refused (or no camera): the listener's promise
\* rejects and nothing else of it runs.
CamMediaSettled(job, granted) ==
    /\ job \in cam.jobs
    /\ job.phase = "media"
    /\ cam' = IF granted
                THEN [cam EXCEPT !.hidden = FALSE, !.label = BtnBusyLabel,
                                 !.liveStreams = @ \cup {job.id},
                                 !.jobs = Advance(job, "timer")]
                ELSE [cam EXCEPT !.jobs = @ \ {job}]
    /\ UNCHANGED <<acts, token, routerVars, studentVars, teacherVars, inflight, validated, lastEvent>>

\* The timer fired: the frame is drawn and canvas.toBlob awaited.
CamTimerFired(job) ==
    /\ job \in cam.jobs
    /\ job.phase = "timer"
    /\ cam' = [cam EXCEPT !.jobs = Advance(job, "blob")]
    /\ UNCHANGED <<acts, token, routerVars, studentVars, teacherVars, inflight, validated, lastEvent>>

\* toBlob called back: the form is built and the attendance request sent.
CamBlobReady(job) ==
    /\ job \in cam.jobs
    /\ job.phase = "blob"
    /\ cam' = [cam EXCEPT !.jobs = Advance(job, "fetch")]
    /\ UNCHANGED <<acts, token, routerVars, studentVars, teacherVars, inflight, validated, lastEvent>>

\* Does the callback run past `await fetch` and `await res.json()`? Neither is
\* inside a try block.
CamReachesCleanup(out) == ~out.net /\ out.body.json

\* res.ok ? success text : failure mark + data.detail (an undefined detail
\* prints as "undefined").
CamStatusText(out) ==
    IF Ok(out) THEN CamSuccessText ELSE <<"[cross mark] ", out.body.detail>>

\* The attendance request settled: status text, the job's tracks stopped, the
\* video hidden, the label restored; or, when fetch rejected or the body is
\* not JSON, the callback's promise rejects and none of that runs.
CamFetchSettled(job, out) ==
    /\ job \in cam.jobs
    /\ job.phase = "fetch"
    /\ cam' = IF CamReachesCleanup(out)
                THEN [cam EXCEPT !.status = CamStatusText(out),
                                 !.liveStreams = @ \ {job.id},
                                 !.hidden = TRUE,
                                 !.label = BtnIdleLabel,
                                 !.jobs = @ \ {job}]
                ELSE [cam EXCEPT !.jobs = @ \ {job}]
    /\ UNCHANGED <<acts, token, routerVars, studentVars, teacherVars, inflight, validated, lastEvent>>

\* What the browser does on its own: promises settle, the timer fires.
CamProgress ==
    \E job \in cam.jobs :
        \/ \E granted \in BOOLEAN : CamMediaSettled(job, granted)
        \/ CamTimerFired(job)
        \/ CamBlobReady(job)
        \/ \E out \in Outcomes : CamFetchSettled(job, out)

NextCamera == CamClick \/ CamProgress

\* The camera page, on which every promise settles and every timer fires.
CameraSpec == Init /\ [][NextCamera]_vars /\ WF_vars(CamProgress)

\* ------------------------------------------------------------------ claims

ActionHandlers ==
    {"upload", "enroll", "unenroll", "deleteFile", "registerFace", "markAttendance"}
TransientHandlers == {"upload", "enroll", "registerFace", "markAttendance"}

\* The requests in flight that action handlers sent.
ActionRequests(reqs) == { r \in reqs : r.h \in ActionHandlers }

SentIds(reqs) == { r.id : r \in ActionRequests(reqs) }

MentionsAuthentication(text) ==
    \E i \in 1..Len(text) :
        text[i] \in {AuthMissingText, "Authentication token not found."}

\* The transient input of each handler, as the handler's view holds it.
PayloadPresent(h) ==
    CASE h = "upload" -> Truthy(up.file)
      [] h = "enroll" -> Truthy(enr.studentId)
      [] h = "markAttendance" -> slv.selectedFile # NoFile
      [] h = "registerFace" -> frp.selectedFile # NoFile
      [] OTHER -> TRUE

\* C1: every request sent to a protected endpoint (the fetch of an action
\* handler or of a data fetch, a download) carries a credential, and a handler
\* invoked with its payload but without a stored credential sends nothing and
\* shows a warning-level notification that mentions authentication.
C1_RequestsCarryCredential ==
    /\ \A r \in inflight : Truthy(r.auth)
    /\ (lastEvent.act = "download" /\ lastEvent.kind = "sent") => Truthy(lastEvent.auth)
    /\ (lastEvent.act \in {"invoke", "download"} /\ ~Truthy(token)
            /\ lastEvent.kind \notin {"nofile", "declined"})
        => /\ lastEvent.kind = "notoken"
           /\ lastEvent.note.type = "warning"
           /\ MentionsAuthentication(lastEvent.note.text)

\* C2: a handler invoked with no file / no identifier selected sends no request
\* and shows a warning-level notification.
C2_NoPayloadWarns ==
    [][ (lastEvent'.act = "invoke" /\ lastEvent'.kind = "nofile")
          => /\ inflight' = inflight
             /\ lastEvent'.note.type = "warning" ]_vars

\* C3: an invocation of an action handler whose preconditions hold (payload and
\* credential present, confirmation accepted) puts exactly one request in
\* flight; any invocation puts at most one; and no step that handles an outcome
\* (or any other step) puts an action request in flight: requests never outnumber
\* clicks.
C3_OneRequestPerClick ==
    [][ /\ (lastEvent'.act = "invoke" /\ lastEvent'.kind # "declined"
              /\ PayloadPresent(lastEvent'.h) /\ Truthy(token))
            => Cardinality(SentIds(inflight') \ SentIds(inflight)) = 1
        /\ lastEvent'.act = "invoke"
            => /\ Cardinality(SentIds(inflight') \ SentIds(inflight)) <= 1
               /\ acts' = acts + 1
        /\ lastEvent'.act # "invoke"
            => SentIds(inflight') \subseteq SentIds(inflight)
        /\ lastEvent'.act = "response"
            => Cardinality(inflight') = Cardinality(inflight) - 1 ]_vars

\* C3's case: a failed mark-attendance request was handled and nothing is in flight.
C3_Witness ==
    /\ lastEvent.act = "response"
    /\ lastEvent.h = "markAttendance"
    /\ lastEvent.kind = "failure"
    /\ inflight = {}

\* The transient input of handler h is cleared, its file picker reset.
InputCleared(h) ==
    CASE h = "upload" -> up.file = NoFile /\ up.fileName = "" /\ up.input = NoFile
      [] h = "enroll" -> enr.studentId = ""
      [] h = "markAttendance" -> slv.selectedFile = NoFile /\ slv.input = NoFile
      [] h = "registerFace" -> frp.selectedFile = NoFile /\ frp.input = NoFile
      [] OTHER -> TRUE

\* C4: whenever the server answers a transient-input handler with a 2xx status,
\* whatever the body, the handler shows a notification of success and clears
\* the selected file / identifier and the file picker.
C4_SuccessOn2xx ==
    (lastEvent.act = "response" /\ lastEvent.h \in TransientHandlers
        /\ lastEvent.cur /\ Ok(lastEvent.out))
    => /\ lastEvent.note.type \in {"success", "info"}
       /\ InputCleared(lastEvent.h)

\* C5: a failure of an action handler (non-2xx, network exception, missing
\* credential) leaves every transient input as it was.
C5_FailureKeepsInput ==
    [][ (lastEvent'.h \in ActionHandlers
           /\ \/ lastEvent'.act = "response" /\ lastEvent'.kind = "failure"
              \/ lastEvent'.act = "invoke" /\ lastEvent'.kind = "notoken")
          => /\ up' = up
             /\ enr' = enr
             /\ slv'.selectedFile = slv.selectedFile /\ slv'.input = slv.input
             /\ frp'.selectedFile = frp.selectedFile /\ frp'.input = frp.input ]_vars

\* C5's case: mark attendance failed and the file is still selected.
C5_Witness ==
    /\ lastEvent.act = "response"
    /\ lastEvent.h = "markAttendance"
    /\ lastEvent.kind = "failure"
    /\ lastEvent.cur
    /\ slv.selectedFile \in Files
    /\ slv.input \in Files

\* A non-2xx response whose JSON body has a detail field.
HasDetail(out) == ~out.net /\ ~Ok(out) /\ out.body.json /\ out.body.detail # Undefined

\* A non-2xx response whose body is not JSON, or is JSON without a detail field.
NoUsableDetail(out) ==
    ~out.net /\ ~Ok(out) /\ (~out.body.json \/ out.body.detail = Undefined)

AfterResponseOf(hs) == lastEvent.act = "response" /\ lastEvent.h \in hs

\* C6 as stated: given a non-2xx response whose JSON body is {detail: d}, the
\* handler shows an error-level notification whose text is exactly d.
C6_ErrorTextIsDetail ==
    (AfterResponseOf(ActionHandlers) /\ HasDetail(lastEvent.out))
    => /\ lastEvent.note.type = "error"
       /\ lastEvent.note.text = <<lastEvent.out.body.detail>>

\* The label each handler puts before the message of the error it caught.
ErrorPrefix(h) == IF h = "markAttendance" THEN "Attendance Error: " ELSE "Error: "

\* C6 as amended: given a non-2xx response whose JSON body is {detail: d} with d
\* a non-empty string, the handler shows a notification, error-level for mark
\* attendance and register face and warning-level for the teacher-side
\* handlers, whose text contains d: the handler's label followed by d, except
\* that delete file follows its label with the status and the raw body.
C6_ErrorTextContainsDetail ==
    (AfterResponseOf(ActionHandlers) /\ HasDetail(lastEvent.out)
        /\ lastEvent.out.body.detail # "")
    => /\ lastEvent.note.type =
            (IF lastEvent.h \in {"markAttendance", "registerFace"} THEN "error" ELSE "warning")
       /\ lastEvent.note.text[1] = ErrorPrefix(lastEvent.h)
       /\ IF lastEvent.h = "deleteFile"
            THEN /\ Len(lastEvent.note.text) = 5
                 /\ lastEvent.note.text[3] = StatusText(lastEvent.out.status)
                 /\ lastEvent.note.text[5] = lastEvent.out.body.raw
            ELSE lastEvent.note.text = <<ErrorPrefix(lastEvent.h), lastEvent.out.body.detail>>

\* C6's case: an upload answered 400 {detail: 'bad input'}.
C6_Witness ==
    /\ AfterResponseOf({"upload"})
    /\ lastEvent.out.status = 400
    /\ lastEvent.out.body.detail = "bad input"
    /\ lastEvent.note = Note(<<"Error: ", "bad input">>, "warning")

\* The notification handler h shows for outcome out.
NoteFor(h, out) ==
    CASE h = "upload" -> UploadNote(out)
      [] h = "enroll" -> EnrollNote(out)
      [] h = "unenroll" -> UnenrollNote(out)
      [] h = "deleteFile" -> DeleteNote(out)
      [] h = "markAttendance" -> MarkNote(out)
      [] h = "registerFace" -> RegisterNote(out)
      [] OTHER -> NoNote

\* C7: given a non-2xx response whose body cannot be parsed as JSON or lacks a
\* detail field, the message the handler shows is one fixed message of that
\* handler: the same for every such response, whatever its body or status.
C7_GenericMessageIsFixed ==
    (AfterResponseOf(ActionHandlers) /\ NoUsableDetail(lastEvent.out))
    => \A other \in Outcomes :
          NoUsableDetail(other) => NoteFor(lastEvent.h, other).text = lastEvent.note.text

\* C8: App starts unresolved, asks for the role at most once, and once
\* loadingPermissions is false it stays false and the role stays what it is.
C8_ResolutionIsTerminal ==
    /\ [](permPhase = "mounted" => loadingPermissions /\ permRequests = 0)
    /\ [](permRequests <= 1)
    /\ [][ ~loadingPermissions =>
              (~loadingPermissions' /\ permissions' = permissions) ]_vars

\* C8's case: a resolved student session, several steps on.
C8_Witness ==
    /\ ~loadingPermissions
    /\ permissions = "student"
    /\ permRequests = 1
    /\ lastEvent.act = "response"

C11_CredentialReadOnly == [][token' = token]_vars

\* C11's case: with a credential stored, a request failed and was handled.
C11_Witness ==
    /\ token \in Tokens
    /\ AfterResponseOf(ActionHandlers)
    /\ lastEvent.kind = "failure"

TeacherHandlers == {"upload", "enroll", "unenroll", "deleteFile"}

\* C12: a step of a teacher-side handler calls refresh() exactly when it handles
\* a response whose status is 2xx: never on a missing payload or credential, a
\* declined confirmation, a non-2xx response or a network exception; a response
\* step handles one request, so one invocation refreshes at most once; and no
\* other step refreshes.
C12_RefreshOn2xx ==
    /\ lastEvent.h \in TeacherHandlers
        => (lastEvent.refresh <=>
              (lastEvent.act = "response" /\ ~lastEvent.out.net
                 /\ lastEvent.out.status \in 200..299))
    /\ lastEvent.refresh => lastEvent.h \in TeacherHandlers

\* C12's case: a delete was answered 2xx and refreshed the list.
C12_Witness ==
    /\ AfterResponseOf({"deleteFile"})
    /\ lastEvent.out.status = 200
    /\ lastEvent.refresh

\* C12's other case: an unenroll was answered 400 and did not refresh.
C12_FailureWitness ==
    /\ AfterResponseOf({"unenroll"})
    /\ lastEvent.out.status = 400
    /\ ~lastEvent.refresh

UploadsInFlight == { r \in inflight : r.h = "upload" }

\* The request a response step handled.
Handled == inflight \ inflight'

\* C13: uploads are neither serialized nor queued. With a file selected the
\* upload button can be clicked whether or not an upload is in flight, and the
\* click sends its request at once; any upload in flight may be the next one
\* answered, with any outcome; and the step that handles a response shows the
\* notification of that response, refreshes and clears the input according to
\* that response alone, and leaves the other requests in flight.
C13_UploadsRace ==
    /\ []( (TeacherMounted /\ Truthy(up.file) /\ acts < MaxActs) => ENABLED ClickUpload )
    /\ []( \A r \in UploadsInFlight : \A out \in Outcomes : ENABLED UploadSettled(r, out) )
    /\ [][ (lastEvent'.act = "invoke" /\ lastEvent'.h = "upload" /\ lastEvent'.kind = "sent")
             => /\ inflight \subseteq inflight'
                /\ Cardinality(inflight') = Cardinality(inflight) + 1 ]_vars
    /\ [][ (lastEvent'.act = "response" /\ lastEvent'.h = "upload")
             => /\ Cardinality(Handled) = 1
                /\ inflight' = inflight \ Handled
                /\ lastEvent'.note = UploadNote(lastEvent'.out)
                /\ lastEvent'.refresh = Ok(lastEvent'.out)
                /\ up' = IF Ok(lastEvent'.out) THEN UpInit ELSE up ]_vars

\* C13's case: of two uploads in flight the later one was answered first, and
\* the earlier one is still in flight.
C13_Witness ==
    /\ AfterResponseOf({"upload"})
    /\ acts = 2
    /\ \E r \in inflight : r.h = "upload" /\ r.id = 0

\* C14 as stated: when the response of a request arrives, its handler's
\* continuation applies its notification and its state updates, whether or
\* not the view that sent the request is still mounted.
C14_ContinuationAppliesState ==
    [][ (lastEvent'.act = "response" /\ lastEvent'.h = "markAttendance")
          => /\ lastEvent'.note = MarkNote(lastEvent'.out)
             /\ slv'.attendanceServerMessageType =
                   (IF MarkSucceeds(lastEvent'.out) THEN "success" ELSE "error")
             /\ ~slv'.isAttendanceLoading ]_vars

\* The state of StudentLessonView and FaceRegistrationPage that setState sets.
ViewState(s) == [s EXCEPT !.input = NoFile]

\* C14 as amended: no request is cancelled: a navigation (an unmount, or a
\* change of lessonId) leaves every request in flight; when the response
\* arrives the continuation runs and shows its notification in every case; its
\* state updates are applied when the view instance that sent the request is
\* still mounted (after a change of lessonId it is) and change nothing when
\* that instance was unmounted.
C14_NoRequestCancelled ==
    /\ [][ lastEvent'.act = "nav"
             => \A r \in inflight : \E q \in inflight' :
                    q.id = r.id /\ q.h = r.h /\ q.auth = r.auth /\ q.lessonId = r.lessonId ]_vars
    /\ [][ (lastEvent'.act = "response" /\ lastEvent'.h = "markAttendance")
             => /\ lastEvent'.note = MarkNote(lastEvent'.out)
                /\ ViewState(slv') =
                      ViewState(IF lastEvent'.cur THEN SlvAfterMark(slv, lastEvent'.out) ELSE slv) ]_vars
    /\ [][ (lastEvent'.act = "response" /\ lastEvent'.h = "registerFace")
             => /\ lastEvent'.note = RegisterNote(lastEvent'.out)
                /\ ViewState(frp') =
                      ViewState(IF lastEvent'.cur THEN FrpAfterRegister(frp, lastEvent'.out) ELSE frp) ]_vars
    /\ [][ (lastEvent'.act = "response" /\ lastEvent'.h = "fetchLessonDetails" /\ ~lastEvent'.cur)
             => slv' = slv ]_vars

\* C14's case: the response of a mark-attendance request arrived after its view
\* was unmounted, and its notification was shown.
C14_Witness ==
    /\ AfterResponseOf({"markAttendance"})
    /\ ~lastEvent.cur
    /\ lastEvent.note.type \in {"success", "error"}

\* C14's other case: the response arrived after lessonId changed, the view
\* still mounted, and reset the loading flag.
C14_LessonChangeWitness ==
    /\ AfterResponseOf({"markAttendance"})
    /\ lastEvent.cur
    /\ slv.lesson # loc.lessonId
    /\ ~slv.isAttendanceLoading

\* The falsy values of JavaScript among the field values.
FalsyValues ==
    { [type |-> "undefined", repr |-> "undefined"], [type |-> "object", repr |-> "null"],
      [type |-> "boolean", repr |-> "false"], [type |-> "number", repr |-> "0"],
      [type |-> "number", repr |-> "-0"], [type |-> "number", repr |-> "NaN"],
      [type |-> "string", repr |-> ""] }

\* What the claim says required(m)(v) returns.
ClaimedRequired(m, v) ==
    IF v \in FalsyValues
      THEN (IF m = [type |-> "undefined", repr |-> "undefined"]
              THEN [type |-> "string", repr |-> "Required"] ELSE m)
      ELSE [type |-> "undefined", repr |-> "undefined"]

\* C15: for every field value v and message m, required(m)(v) is undefined
\* exactly when v is truthy and is m when v is falsy, m being 'Required' when no
\* message is given; the validators of LessonCreate and LessonEdit return the
\* same for the same input.
C15_RequiredValidator ==
    /\ validated.create # NotRun
        => /\ validated.create = ClaimedRequired(validated.message, validated.value)
           /\ (validated.create = [type |-> "undefined", repr |-> "undefined"])
                 <=> (validated.value \notin FalsyValues)
    /\ validated.edit # NotRun
        => /\ validated.edit = ClaimedRequired(validated.message, validated.value)
           /\ (validated.edit = [type |-> "undefined", repr |-> "undefined"])
                 <=> (validated.value \notin FalsyValues)
    /\ (validated.create # NotRun /\ validated.edit # NotRun)
        => validated.create = validated.edit

\* C15's case: the number 0 validated with no message given: both forms say 'Required'.
C15_Witness ==
    /\ validated.value = [type |-> "number", repr |-> "0"]
    /\ validated.message = [type |-> "undefined", repr |-> "undefined"]
    /\ validated.create = [type |-> "string", repr |-> "Required"]
    /\ validated.edit = [type |-> "string", repr |-> "Required"]

ConfirmedHandlers == {"deleteFile", "unenroll"}

\* C16: a delete-file or unenroll invocation whose confirmation prompt was
\* declined sends no request, shows no notification and does not refresh; and
\* a request of these handlers is put in flight only by the step of an
\* invocation of that handler that passed the prompt.
C16_ConfirmGates ==
    /\ [][ (lastEvent'.act = "invoke" /\ lastEvent'.kind = "declined")
             => /\ lastEvent'.h \in ConfirmedHandlers
                /\ inflight' = inflight
                /\ lastEvent'.note = NoNote
                /\ ~lastEvent'.refresh ]_vars
    /\ [][ \A r \in inflight' \ inflight :
              r.h \in ConfirmedHandlers
                => /\ lastEvent'.act = "invoke"
                   /\ lastEvent'.h = r.h
                   /\ lastEvent'.kind = "sent" ]_vars

\* C16's case: the prompt of a delete was declined while an unenroll, confirmed
\* earlier, is in flight.
C16_Witness ==
    /\ lastEvent.act = "invoke"
    /\ lastEvent.h = "deleteFile"
    /\ lastEvent.kind = "declined"
    /\ \E r \in inflight : r.h = "unenroll"

\* The requests of handler h whose view instance is still mounted.
LiveRequests(h) == { r \in inflight : r.h = h /\ r.live }

\* C17: while a mark-attendance (register-face) request of the mounted view is
\* in flight the view's loading flag is true and its submit button disabled,
\* and at most one such request is in flight.
C17_OneSubmitInFlight ==
    /\ LiveRequests("markAttendance") # {}
        => loc.view = "lesson" /\ slv.isAttendanceLoading /\ MarkDisabled
    /\ LiveRequests("registerFace") # {}
        => loc.view = "face" /\ frp.isLoading /\ RegisterDisabled
    /\ Cardinality(LiveRequests("markAttendance")) <= 1
    /\ Cardinality(LiveRequests("registerFace")) <= 1

\* C17's case: a mark-attendance request is in flight, a file is selected and
\* the student could still click: the button is disabled.
C17_Witness ==
    /\ LiveRequests("markAttendance") # {}
    /\ slv.selectedFile \in Files
    /\ acts < MaxActs
    /\ MarkDisabled

C19_ShowsCurrentLesson ==
    (loc.view = "lesson" /\ LiveRequests("fetchLessonDetails") = {} /\ slv.lesson # NoLesson)
    => slv.lesson = loc.lessonId

\* C19, second part: once the fetch for the current lessonId succeeded, no
\* error is shown.
C19_NoStaleError ==
    [][ (lastEvent'.act = "response" /\ lastEvent'.h = "fetchLessonDetails"
           /\ lastEvent'.cur /\ lastEvent'.kind = "success"
           /\ \A r \in Handled : r.lessonId = loc.lessonId)
          => slv'.error = NoError ]_vars

\* C19: after a change of lessonId with the view mounted and all lesson-detail
\* fetches settled, the state shown is that of the current lessonId: its
\* lesson, and no error of an earlier fetch once its own fetch succeeded.
C19_StateFollowsLessonId ==
    /\ []C19_ShowsCurrentLesson
    /\ C19_NoStaleError

\* C20: the administrative resources are mounted only in states where
\* authProvider.getPermissions() was called and answered "teacher".
C20_AdminOnlyWhenAnswered ==
    Resources # {} =>
       /\ hasGetPermissions
       /\ permRequests >= 1
       /\ permPhase = "settled"
       /\ permissions = "teacher"

\* The camera page at rest after an attempt: no track of any stream running,
\* the video hidden, the button's label restored, the status line showing the
\* success or the failure text.
CamIdle ==
    /\ cam.liveStreams = {}
    /\ cam.hidden
    /\ cam.label = BtnIdleLabel
    /\ cam.status # NoText

\* C21: on the camera page, once a click's attendance request is sent the page
\* eventually is idle again, whatever the outcome of the request.
C21_CameraReturnsToIdle ==
    (\E job \in cam.jobs : job.phase = "fetch") ~> CamIdle

\* C21, its safety half: when the last pending click has handled the outcome
\* of its request, the page is idle.
C21_IdleAfterOutcome ==
    [][ ((\E job \in cam.jobs : job.phase = "fetch" /\ job \notin cam'.jobs)
           /\ cam'.jobs = {})
          => CamIdle' ]_vars

====
